---- MODULE Spec2Model ----
(***************************************************************************)
(* Sketch-and-precondition saddle-point solvers of parla:                  *)
(*   parla/comps/determiter/saddle.py  (PcSS1, PcSS2, PcSS3)               *)
(*   parla/drivers/saddlesys.py        (SPS1, SPS2)                        *)
(*                                                                         *)
(* Numbers.  A float is modelled as a fixed-point number: the integer v    *)
(* stands for v / Scale, every product and quotient is rounded to the      *)
(* nearest representable value, and a square root to the nearest one.      *)
(* NaN and Inf are the two IEEE special values the code can produce.       *)
(* Vectors are sequences, a matrix is the sequence of its rows.            *)
(* The problems solved have m = 2 rows and n = 1 column.                   *)
(***************************************************************************)
EXTENDS Integers, Sequences, FiniteSets, TLC

Scale == 16
MaxEntry == 2
MaxIterLim == 6

\* np.NaN, and the +inf that a float64 division x/0 (x > 0) yields
NaN == -1073741824
Inf == 1073741824
IsNaN(v) == v = NaN

\* machine epsilon: one unit in the last place of the fixed-point format
EPS == 1
\* PcSS3.MIN_TOL = 10*np.finfo(float).eps
MIN_TOL == 10 * EPS

Abs(a) == IF a < 0 THEN -a ELSE a

\* a / b rounded to the nearest integer (b # 0)
RDiv(a, b) ==
    LET q == (2 * Abs(a) + Abs(b)) \div (2 * Abs(b))
    IN  IF (a < 0) # (b < 0) THEN -q ELSE q

FMul(a, b) == RDiv(a * b, Scale)
FDiv(a, b) == RDiv(a * Scale, b)

\* the largest r in lo..hi with r * r <= v
RECURSIVE SqrtSearch(_, _, _)
SqrtSearch(v, lo, hi) ==
    IF lo >= hi THEN lo
    ELSE LET mid == (lo + hi + 1) \div 2
         IN  IF mid * mid <= v THEN SqrtSearch(v, mid, hi)
             ELSE SqrtSearch(v, lo, mid - 1)

\* nearest integer to the square root of v >= 0
ISqrt(v) ==
    LET r == SqrtSearch(v, 0, 40000)
    IN  IF (r + 1) * (r + 1) - v < v - r * r THEN r + 1 ELSE r

\* x ** 0.5 of a fixed-point number
FSqrt(a) == ISqrt(a * Scale)

RECURSIVE SumSeq(_)
SumSeq(s) == IF s = <<>> THEN 0 ELSE Head(s) + SumSeq(Tail(s))

HasNaN(v) == \E i \in DOMAIN v : IsNaN(v[i])
NaNs(k) == [i \in 1..k |-> NaN]

\* u @ v for two vectors; a NaN entry makes the product NaN
Dot(u, v) ==
    IF HasNaN(u) \/ HasNaN(v) THEN NaN
    ELSE RDiv(SumSeq([i \in 1..Len(u) |-> u[i] * v[i]]), Scale)

\* the 2-norm of a finite vector (np.linalg.norm, and la.norm once it has
\* checked that the vector is finite)
Norm(v) == ISqrt(SumSeq([i \in 1..Len(v) |-> v[i] * v[i]]))

Cols(A) == Len(A[1])
Col(A, j) == [i \in 1..Len(A) |-> A[i][j]]

\* A @ x
MatVec(A, x) == [i \in 1..Len(A) |-> Dot(A[i], x)]

\* A.T @ y
TMatVec(A, y) == [j \in 1..Cols(A) |-> Dot(Col(A, j), y)]

\* elementwise float arithmetic: NaN in, NaN out
Add(a, b) == IF IsNaN(a) \/ IsNaN(b) THEN NaN ELSE a + b
Sub(a, b) == IF IsNaN(a) \/ IsNaN(b) THEN NaN ELSE a - b
Mul(a, b) == IF IsNaN(a) \/ IsNaN(b) THEN NaN ELSE FMul(a, b)
VAdd(u, v) == [i \in 1..Len(u) |-> Add(u[i], v[i])]
VSub(u, v) == [i \in 1..Len(u) |-> Sub(u[i], v[i])]
\* v * a for a scalar a
VScale(v, a) == [i \in 1..Len(v) |-> Mul(v[i], a)]
Zeros(k) == [i \in 1..k |-> 0]

\* whether a product was computed without rounding: the models of np.dot and
\* of the scaling of a vector return the exact value
ExactDot(u, v) ==
    ~HasNaN(u) /\ ~HasNaN(v) /\ SumSeq([i \in 1..Len(u) |-> u[i] * v[i]]) % Scale = 0
ExactMatVec(A, x) == \A i \in 1..Len(A) : ExactDot(A[i], x)
ExactTMatVec(A, y) == \A j \in 1..Cols(A) : ExactDot(Col(A, j), y)
ExactScale(v, a) ==
    ~HasNaN(v) /\ a \notin {NaN, Inf} /\ \A i \in 1..Len(v) : (v[i] * a) % Scale = 0

\* float comparisons: every comparison with NaN is false
Gt(a, b) == ~IsNaN(a) /\ ~IsNaN(b) /\ a > b
Le(a, b) == ~IsNaN(a) /\ ~IsNaN(b) /\ a <= b
Lt(a, b) == ~IsNaN(a) /\ ~IsNaN(b) /\ a < b

\* Python's min(a, b): b if b < a else a
PyMin(a, b) == IF Lt(b, a) THEN b ELSE a

\* a / b in float64 arithmetic (numpy scalars): x/0 is inf or nan, no error
NpDiv(a, b) ==
    IF b = 0 THEN (IF a = 0 THEN NaN ELSE Inf) ELSE FDiv(a, b)

\* None, or an array
None == [isNone |-> TRUE, ndim |-> 0, v |-> <<>>]
Arr(v) == [isNone |-> FALSE, ndim |-> 1, v |-> v]
\* a two-column right-hand side, stored column after column
Arr2(v) == [isNone |-> FALSE, ndim |-> 2, v |-> v]

VARIABLES
    driver,     \* "none", or the driver being run: "SPS1", "SPS2"
    dloc,       \* the driver's arguments and locals
    solver,     \* the iterative solver called: "PcSS1", "PcSS2", "PcSS3"
    self,       \* the solver object's fields (allow_consistent_term)
    args,       \* the solver call's arguments
    mem,        \* the arrays held by callers, as the call leaves them: the
                \* A, b and c of the outermost call, the R and z0 of the solver's
    pc,         \* position: "drv", "call", "loop", "ret", "raised", "drvret", "done"
    loc,        \* PcSS3's locals; for PcSS1, x is the iterate handed to pcg
    out,        \* what the solver call returned or raised
    dout,       \* what the driver call returned or raised
    warned,     \* the warnings emitted: "tol", "iter_lim"
    nprod,      \* the number of products with A or R computed so far
    lsqrCall,   \* the arguments of the call of lsqr, once made
    osid        \* the arguments, sketch and result of a one-sided ID call

vars == <<driver, dloc, solver, self, args, mem, pc, loc, out, dout, warned,
          nprod, lsqrCall, osid>>

NoOut == [kind |-> "none", exc |-> "", x |-> <<>>, y |-> <<>>,
          errors |-> <<>>, code |-> 0, arity |-> 0]
Raised(e) == [NoOut EXCEPT !.kind = "raise", !.exc = e]
Returned(x, y, errors, code, arity) ==
    [kind |-> "ret", exc |-> "", x |-> x, y |-> y, errors |-> errors,
     code |-> code, arity |-> arity]

\* the arguments of PrecondSaddleSolver.__call__
SolverArgs(A, b, c, delta, tol, iter_lim, R, upper_tri, z0) ==
    [A |-> A, b |-> b, c |-> c, delta |-> delta, tol |-> tol,
     iter_lim |-> iter_lim, R |-> R, upper_tri |-> upper_tri, z0 |-> z0]

SharesMemoryOfCopy(how) == how \in {"slice", "copy"}

\* whether the array an expression yields shares memory with its operand:
\* a basic slice (z0[:]) is a view of it, while b.copy() and
\* np.concatenate((b, ...)) are arrays of their own
SharesMemory(how) == how = "slice"

\* y = b.copy(), for a b that the outermost caller holds (SPS2 hands the
\* solver its own b_aug, SPS1 its own zeros when b is None)
YSharesB ==
    /\ SharesMemory("copy")
    /\ driver = "none" \/ (driver = "SPS1" /\ ~dloc.b.isNone)

NoCall == [made |-> FALSE, atol |-> 0, btol |-> 0, iter_lim |-> 0,
           x0 |-> None, allow |-> FALSE, transposed |-> FALSE]

(***************************************************************************)
(* PcSS3                                                                   *)
(***************************************************************************)

\* step_size(dx_, work_ax1_, work_ax2_), a closure over A, b and x
step_size(A, b, x, dx_) ==
    LET work_ax1 == MatVec(A, dx_)
        den == Norm(work_ax1)
    IN  IF den > 0
        THEN LET unit == [i \in 1..Len(work_ax1) |-> FDiv(work_ax1[i], den)]
                 work_ax2 == VSub(MatVec(A, x), b)
                 neg_num == Dot(unit, work_ax2)
             IN  FDiv(-neg_num, den)
        ELSE LET nrm_dx == Norm(dx_)
             IN  IF nrm_dx > 0
                 THEN NpDiv(Dot(x, dx_), FMul(nrm_dx, nrm_dx))
                 ELSE NaN

\* the denominators of metric1 and metric2
Metric1Den(nrm_b, sqrt_n, z) == nrm_b + FMul(sqrt_n, Norm(z))
Metric2Den(sqrt_n, nrm_y) == FMul(sqrt_n, nrm_y)

\* error_func(metric1, metric2)
error_func(allow, metric1, metric2) ==
    IF allow THEN PyMin(metric1, metric2) ELSE metric2

EffTolUnfloored(tol) == tol

EffIterLimUnclamped(iter_lim, n) == iter_lim

\* tol and iter_lim after the substitutions, and the warnings they emit
EffTol(tol) == IF tol < MIN_TOL THEN MIN_TOL ELSE tol

EffIterLim(iter_lim, n) == IF iter_lim > 5 * n THEN 5 * n ELSE iter_lim
Warnings(tol, iter_lim, n) ==
    (IF tol < MIN_TOL THEN {"tol"} ELSE {})
        \cup (IF iter_lim > 5 * n THEN {"iter_lim"} ELSE {})

\* errors[i] = v on a buffer whose index 0 is the sequence's entry 1
BufWrite(buf, i, v) == [buf EXCEPT ![i + 1] = v]

\* The workspace, the warm start (if any) and the quantities of the first
\* stopping test.  finite is false when la.norm is handed a NaN.
PcSS3Start(A, b, M, z0, tol, iter_lim) ==
    LET n == Cols(A)
        warm == ~z0.isNone /\ Norm(z0.v) > 0
        dz0 == z0.v
        dx0 == MatVec(M, dz0)
        alpha == step_size(A, b, Zeros(n), dx0)
        dx == VScale(dx0, alpha)
        work_ax1 == MatVec(A, dx)
        drhs == TMatVec(A, work_ax1)
        x == IF warm THEN dx ELSE Zeros(n)
        y == IF warm THEN VSub(b, work_ax1) ELSE b
        z == IF warm THEN VScale(dz0, alpha) ELSE Zeros(Cols(M))
        rhs == IF warm THEN VSub(TMatVec(A, b), drhs) ELSE TMatVec(A, b)
        dz == TMatVec(M, rhs)
        finite == ~HasNaN(dz) /\ ~HasNaN(y) /\ ~HasNaN(z)
        err == IF finite THEN Norm(dz) ELSE NaN
        sqrt_n == FSqrt(n * Scale)
        errors == [i \in 1..(iter_lim + 2) |-> -Scale]
    IN  [x |-> x, y |-> y, z |-> z, dz |-> dz, rhs |-> rhs, err |-> err,
         errors |-> IF finite THEN BufWrite(errors, 0, err) ELSE errors,
         it |-> 1, iter_lim |-> iter_lim + 1, tol |-> tol,
         metric1 |-> 0, metric2 |-> 0, broke |-> FALSE, steps |-> 0,
         alpha |-> IF warm THEN alpha ELSE 0,
         alpha0 |-> IF warm THEN alpha ELSE Scale, viewz0 |-> warm,
         finite |-> finite,
         exact |-> /\ finite
                   /\ ExactTMatVec(A, b)
                   /\ warm => /\ ExactMatVec(M, dz0)
                              /\ ExactScale(dx0, alpha) /\ ExactScale(dz0, alpha)
                              /\ ExactMatVec(A, dx)
                              /\ ExactTMatVec(A, work_ax1)
                   /\ ExactTMatVec(M, rhs),
         d1 |-> IF finite THEN Metric1Den(Norm(b), sqrt_n, z) ELSE 0,
         d2 |-> IF finite THEN Metric2Den(sqrt_n, Norm(y)) ELSE 0,
         nrm_y |-> IF finite THEN Norm(y) ELSE NaN]

NoLoc == [x |-> <<>>, y |-> <<>>, z |-> <<>>, dz |-> <<>>, rhs |-> <<>>,
          err |-> 0, errors |-> <<>>, it |-> 0, iter_lim |-> 0, tol |-> 0,
          metric1 |-> 0, metric2 |-> 0, broke |-> FALSE, steps |-> 0,
          alpha |-> 0, alpha0 |-> Scale, viewz0 |-> FALSE, finite |-> TRUE,
          exact |-> TRUE,
          d1 |-> 0, d2 |-> 0,
          nrm_y |-> 0]

RhsIncrementalAdded(rhs, drhs) == VAdd(rhs, drhs)

\* rhs -= drhs
RhsIncremental(rhs, drhs) == VSub(rhs, drhs)

\* rhs = A'(b - A x), computed from scratch
RhsFromScratch(A, b, x) ==
    TMatVec(A, [i \in 1..Len(b) |-> -(MatVec(A, x)[i] - b[i])])

\* One pass of the main loop's body from the locals l.  exact records that
\* no product of the pass was rounded.
IterBody(A, b, M, l) ==
    LET n == Cols(A)
        it == l.it
        dx0 == MatVec(M, l.dz)
        alpha == step_size(A, b, l.x, dx0)
        degenerate == IsNaN(alpha) \/ alpha = 0
        \* an infinite step makes every array it touches non-finite
        finite == alpha # Inf
        a == IF degenerate \/ ~finite THEN 0 ELSE alpha
        dx == VScale(dx0, a)
        dz1 == VScale(l.dz, a)
        x == VAdd(l.x, dx)
        z == VAdd(l.z, dz1)
        work_ax1 == MatVec(A, dx)
        y == VSub(l.y, work_ax1)
        drhs == TMatVec(A, work_ax1)
        rhs == IF it % 50 = 0
               THEN RhsFromScratch(A, b, x)
               ELSE RhsIncremental(l.rhs, drhs)
        dz == TMatVec(M, rhs)
        err == Norm(dz)
        sqrt_n == FSqrt(n * Scale)
    IN  IF degenerate
        THEN [l EXCEPT !.errors = IF it + 1 <= Len(l.errors)
                                  THEN BufWrite(l.errors, it, l.err) ELSE l.errors,
                       !.broke = TRUE, !.alpha = alpha]
        ELSE IF ~finite
        THEN [l EXCEPT !.finite = FALSE, !.alpha = alpha, !.steps = l.steps + 1]
        ELSE [l EXCEPT !.x = x, !.z = z, !.y = y, !.rhs = rhs, !.dz = dz,
                       !.err = err, !.alpha = alpha, !.steps = l.steps + 1,
                       !.errors = IF it + 1 <= Len(l.errors)
                                  THEN BufWrite(l.errors, it, err) ELSE l.errors,
                       !.it = it + 1,
                       !.exact = /\ l.exact
                                 /\ ExactMatVec(M, l.dz)
                                 /\ ExactScale(dx0, a) /\ ExactScale(l.dz, a)
                                 /\ ExactMatVec(A, dx)
                                 /\ ExactTMatVec(A, work_ax1)
                                 /\ it % 50 = 0 => ExactMatVec(A, x)
                                 /\ ExactTMatVec(M, rhs),
                       !.nrm_y = Norm(y),
                       !.d1 = Metric1Den(Norm(b), sqrt_n, z),
                       !.d2 = Metric2Den(sqrt_n, Norm(y))]

\* The two metrics; a zero denominator is either an error (Python floats)
\* or yields inf or nan (numpy floats), as the norms' type has it.
WithMetrics(l) ==
    [l EXCEPT !.metric1 = NpDiv(l.nrm_y, l.d1), !.metric2 = NpDiv(l.err, l.d2)]

PcSS3_Call ==
    /\ pc = "call"
    /\ solver = "PcSS3"
    /\ UNCHANGED <<osid, driver, dloc, solver, self, args, dout, lsqrCall>>
    /\ IF args.b.isNone
       THEN \* b.shape
            /\ out' = Raised("AttributeError")
            /\ pc' = "raised"
            /\ UNCHANGED <<loc, mem, warned, nprod>>
       ELSE IF Len(args.A) * args.b.ndim # Len(args.b.v) \/ args.b.ndim # 1
       THEN /\ out' = Raised("AssertionError")
            /\ pc' = "raised"
            /\ UNCHANGED <<loc, mem, warned, nprod>>
       ELSE IF ~args.c.isNone \/ args.delta > 0 \/ args.upper_tri
       THEN /\ out' = Raised("NotImplementedError")
            /\ pc' = "raised"
            /\ UNCHANGED <<loc, mem, warned, nprod>>
       ELSE \E s \in {PcSS3Start(args.A, args.b.v, args.R, args.z0,
                                 EffTol(args.tol),
                                 EffIterLim(args.iter_lim, Cols(args.A)))} :
            /\ warned' = Warnings(args.tol, args.iter_lim, Cols(args.A))
            /\ nprod' = nprod + (IF s.viewz0 THEN 7 ELSE 2)
            \* dz is a view of z0: np.dot(M.T, rhs, out=dz) writes the caller's array
            \* y -= work_ax1 writes y
            /\ mem' = [mem EXCEPT !.z0 = IF s.viewz0 THEN Arr(s.dz) ELSE @,
                                  !.b = IF s.viewz0 /\ YSharesB THEN Arr(s.y) ELSE @]
            /\ IF ~s.finite
               THEN \* la.norm rejects an array that is not finite
                    /\ out' = Raised("ValueError")
                    /\ pc' = "raised"
                    /\ loc' = s
               ELSE \/ /\ s.d1 = 0 \/ s.d2 = 0
                       /\ out' = Raised("ZeroDivisionError")
                       /\ pc' = "raised"
                       /\ loc' = s
                    \/ /\ out' = out
                       /\ pc' = "loop"
                       /\ loc' = WithMetrics(s)

\* the condition of the main loop
LoopCond ==
    /\ ~loc.broke
    /\ loc.it < loc.iter_lim
    /\ Gt(error_func(self.allow_consistent_term, loc.metric1, loc.metric2), loc.tol)

PcSS3_Iter ==
    /\ pc = "loop"
    /\ solver = "PcSS3"
    /\ LoopCond
    /\ UNCHANGED <<osid, driver, dloc, solver, self, args, dout, warned, lsqrCall>>
    /\ \E l \in {IterBody(args.A, args.b.v, args.R, loc)} :
         /\ nprod' = nprod + (IF l.broke THEN 3 ELSE IF loc.it % 50 = 0 THEN 8 ELSE 6)
         /\ mem' = [mem EXCEPT !.z0 = IF loc.viewz0 /\ ~l.broke
                                      THEN Arr(IF l.finite THEN l.dz
                                               ELSE NaNs(Len(l.dz)))
                                      ELSE @,
                               !.b = IF ~l.broke /\ YSharesB
                                     THEN Arr(IF l.finite THEN l.y ELSE NaNs(Len(l.y)))
                                     ELSE @]
         /\ IF loc.it + 1 > Len(loc.errors)
            THEN /\ out' = Raised("IndexError")
                 /\ pc' = "raised"
                 /\ loc' = l
            ELSE IF ~l.finite
            THEN /\ out' = Raised("ValueError")
                 /\ pc' = "raised"
                 /\ loc' = l
            ELSE IF l.broke
            THEN /\ out' = out
                 /\ pc' = "loop"
                 /\ loc' = l
            ELSE \/ /\ l.d1 = 0 \/ l.d2 = 0
                    /\ out' = Raised("ZeroDivisionError")
                    /\ pc' = "raised"
                    /\ loc' = l
                 \/ /\ out' = out
                    /\ pc' = "loop"
                    /\ loc' = WithMetrics(l)

\* errors[errors > -1]
TrimErrors(buf) == SelectSeq(buf, LAMBDA e : Gt(e, -Scale))

TermCodeFlagOnly(allow, metric1, metric2, tol) ==
    IF allow THEN 1
    ELSE IF Le(metric2, tol) THEN 2
    ELSE 7

\* the termination code
TermCode(allow, metric1, metric2, tol) ==
    IF allow /\ Le(metric1, tol) THEN 1
    ELSE IF Le(metric2, tol) THEN 2
    ELSE 7

\* After the main loop: the trace, the code and y.
PcSS3_Return ==
    /\ pc = "loop"
    /\ solver = "PcSS3"
    /\ ~LoopCond
    /\ out' = Returned(loc.x,
                       VSub(args.b.v, MatVec(args.A, loc.x)),
                       TrimErrors(loc.errors),
                       TermCode(self.allow_consistent_term, loc.metric1,
                                loc.metric2, loc.tol),
                       4)
    /\ pc' = "ret"
    /\ nprod' = nprod + 1
    /\ UNCHANGED <<osid, driver, dloc, solver, self, args, mem, loc, dout, warned, lsqrCall>>

(***************************************************************************)
(* The preconditioned operator and the two Krylov solvers                  *)
(***************************************************************************)

Transpose(A) == [j \in 1..Cols(A) |-> Col(A, j)]

\* X @ Y
MatMul(X, Y) == [i \in 1..Len(X) |-> [j \in 1..Cols(Y) |-> Dot(X[i], Col(Y, j))]]

\* sqrt_delta * I_n
ScaledEye(n, a) == [i \in 1..n |-> [j \in 1..n |-> IF i = j THEN a ELSE 0]]

\* a_lift(A, sqrt_delta): the row-stack [A; sqrt_delta*I] when delta > 0, else A
a_lift(A, sqrt_delta) ==
    IF sqrt_delta > 0 THEN A \o ScaledEye(Cols(A), sqrt_delta) ELSE A

\* the preconditioning map M: R, or the inverse of the (1-by-1) triangle R
PrecondMap(R, upper_tri) ==
    IF upper_tri THEN << <<FDiv(Scale, R[1][1])>> >> ELSE R

\* a_lift_precond(A, delta, R, upper_tri, k): A_pc = [A; sqrt(delta) I] M with
\* the forward map M_fwd(v) = M v and the adjoint map M_adj(v) = M' v
a_lift_precond(A, delta, R, upper_tri, k) ==
    LET M == PrecondMap(R, upper_tri)
    IN  [A_pc |-> MatMul(a_lift(A, FSqrt(delta)), M), M |-> M]

M_fwd(M, v) == MatVec(M, v)
M_adj(M, v) == TMatVec(M, v)

\* the Frobenius norm of a matrix
FroNorm(A) ==
    ISqrt(SumSeq([i \in 1..Len(A) |-> SumSeq([j \in 1..Cols(A) |-> A[i][j] * A[i][j]])]))

\* LSQR's two stopping tests on the iterate x with residual r and s = A'r
LsqrStop(A, b, x, r, s, atol, btol, allow) ==
    IF allow /\ Norm(r) <= FMul(btol, Norm(b)) + FMul(atol, FMul(FroNorm(A), Norm(x)))
    THEN 1
    ELSE IF Norm(s) <= FMul(atol, FMul(FroNorm(A), Norm(r))) THEN 2
    ELSE 0

\* The iteration of lsqr, in its conjugate-gradient form on the normal
\* equations: st = [x, r, s, p, k, errors, istop].
RECURSIVE LsqrLoop(_, _, _, _, _, _, _)
LsqrLoop(A, b, atol, btol, iter_lim, allow, st) ==
    LET stop == LsqrStop(A, b, st.x, st.r, st.s, atol, btol, allow)
        q == MatVec(A, st.p)
        qq == Dot(q, q)
        gamma == Dot(st.s, st.s)
        alpha == FDiv(gamma, qq)
        x == VAdd(st.x, VScale(st.p, alpha))
        r == VSub(st.r, VScale(q, alpha))
        s == TMatVec(A, r)
        beta == FDiv(Dot(s, s), gamma)
        p == VAdd(s, VScale(st.p, beta))
    IN  IF stop # 0 THEN [st EXCEPT !.istop = stop]
        ELSE IF st.k >= iter_lim THEN [st EXCEPT !.istop = 7]
        ELSE IF qq = 0 \/ gamma = 0 THEN [st EXCEPT !.istop = 2]
        ELSE LsqrLoop(A, b, atol, btol, iter_lim, allow,
                      [x |-> x, r |-> r, s |-> s, p |-> p, k |-> st.k + 1,
                       errors |-> Append(st.errors, Norm(s)), istop |-> 0])

\* lsqr(A, b, atol, btol, iter_lim, x0, allow_consistent_term): the solution
\* (result[0]), the termination code (result[1]) and the trace (result[7])
lsqr(A, b, atol, btol, iter_lim, x0, allow) ==
    LET x == IF x0.isNone THEN Zeros(Cols(A)) ELSE x0.v
        r == VSub(b, MatVec(A, x))
        s == TMatVec(A, r)
    IN  IF Norm(b) = 0 /\ x0.isNone
        THEN [x |-> x, r |-> r, s |-> s, p |-> s, k |-> 0,
              errors |-> <<0>>, istop |-> 0]
        ELSE LsqrLoop(A, b, atol, btol, iter_lim, allow,
                      [x |-> x, r |-> r, s |-> s, p |-> s, k |-> 0,
                       errors |-> <<Norm(s)>>, istop |-> 0])

LsqrCallRec(atol, btol, iter_lim, x0, allow, transposed) ==
    [made |-> TRUE, atol |-> atol, btol |-> btol, iter_lim |-> iter_lim,
     x0 |-> x0, allow |-> allow, transposed |-> transposed]

\* mv_gram(vec) = A'(A vec) + delta vec
mv_gram(A, delta, vec) == VAdd(TMatVec(A, MatVec(A, vec)), VScale(vec, delta))

\* mv_pre(vec) = R R' vec, plus (I - V V') vec under a low-rank preconditioner
mv_pre(R, V, fullrank_precond, vec) ==
    LET res == MatVec(R, TMatVec(R, vec))
    IN  IF fullrank_precond THEN res
        ELSE VSub(VAdd(res, vec), MatVec(V, TMatVec(V, vec)))

\* The iteration of pcg: st = [x, r, d, delta1_old, delta1_new, i, residuals].
RECURSIVE PcgLoop(_, _, _, _, _, _, _, _, _)
PcgLoop(A, delta, R, V, fullrank, rhs, iter_lim, rel_sq_tol, st) ==
    LET q == mv_gram(A, delta, st.d)
        dq == Dot(st.d, q)
        alpha == FDiv(st.delta1_new, dq)
        x == VAdd(st.x, VScale(st.d, alpha))
        r == IF st.i % 10 = 0 THEN VSub(rhs, mv_gram(A, delta, x))
             ELSE VSub(st.r, VScale(q, alpha))
        s == mv_pre(R, V, fullrank, r)
        new == Dot(r, s)
        beta == FDiv(new, st.delta1_new)
        d == VAdd(s, VScale(st.d, beta))
    IN  IF ~(st.i < iter_lim /\ Gt(st.delta1_new, rel_sq_tol)) THEN st
        ELSE IF dq = 0
        THEN [st EXCEPT !.x = NaNs(Len(st.x)), !.i = st.i + 1,
                        !.residuals = Append(st.residuals, FSqrt(st.delta1_old))]
        ELSE PcgLoop(A, delta, R, V, fullrank, rhs, iter_lim, rel_sq_tol,
                     [x |-> x, r |-> r, d |-> d, delta1_old |-> st.delta1_new,
                      delta1_new |-> new, i |-> st.i + 1,
                      residuals |-> Append(st.residuals, FSqrt(st.delta1_old))])

\* pcg(mv_mat, rhs, mv_pre, iter_lim, tol, x0) for mv_mat = mv_gram and the
\* preconditioner mv_pre: the solution and the trace of residuals
pcg(A, delta, R, V, fullrank, rhs, iter_lim, tol, x0) ==
    LET r == VSub(rhs, mv_gram(A, delta, x0))
        d == mv_pre(R, V, fullrank, r)
        delta1 == Dot(r, d)
    IN  PcgLoop(A, delta, R, V, fullrank, rhs, iter_lim, FMul(FMul(delta1, tol), tol),
                [x |-> x0, r |-> r, d |-> d, delta1_old |-> delta1,
                 delta1_new |-> delta1, i |-> 0, residuals |-> <<>>])

(***************************************************************************)
(* PcSS1                                                                   *)
(***************************************************************************)

\* sing_vals = 1 / la.norm(R, axis=0)
InvColNorms(R) == [j \in 1..Cols(R) |-> NpDiv(Scale, Norm(Col(R, j)))]

\* V = R * sing_vals
ColNormalized(R) ==
    [i \in 1..Len(R) |-> [j \in 1..Cols(R) |-> Mul(R[i][j], InvColNorms(R)[j])]]


\* sing_vals = sqrt(sing_vals**2 + delta)
ShiftedSingVals(R, delta) ==
    [j \in 1..Cols(R) |-> FSqrt(FMul(InvColNorms(R)[j], InvColNorms(R)[j]) + delta)]

\* R after "R[:] = V[:]; R /= (sing_vals / sing_vals[-1])"
RescaledR(R, delta) ==
    LET sv == ShiftedSingVals(R, delta)
        V == ColNormalized(R)
    IN  [i \in 1..Len(R) |->
            [j \in 1..Cols(R) |-> NpDiv(V[i][j], FDiv(sv[j], sv[Len(sv)]))]]

\* PcSS1.__call__: [out, R, nprod, x0], R being the caller's array at exit
\* and x0 the initial iterate handed to pcg
PcSS1Result(a) ==
    LET A == a.A
        m == Len(A)
        n == Cols(A)
        b == IF a.b.isNone THEN Arr(Zeros(m)) ELSE a.b
        k == IF b.ndim = 1 THEN 1 ELSE Len(b.v) \div m
        pc_dim == Cols(a.R)
        R == IF a.delta > 0 THEN RescaledR(a.R, a.delta) ELSE a.R
        V == ColNormalized(a.R)
        fullrank_precond == pc_dim = n
        rhs0 == TMatVec(A, b.v)
        rhs == IF a.c.isNone THEN rhs0 ELSE VSub(rhs0, a.c.v)
        x0 == IF a.z0.isNone \/ ~fullrank_precond THEN Zeros(n) ELSE MatVec(R, a.z0.v)
        res == pcg(A, a.delta, R, V, fullrank_precond, rhs, a.iter_lim, a.tol, x0)
        y == VSub(b.v, MatVec(A, res.x))
    IN  IF k # 1 \/ a.upper_tri
        THEN [out |-> Raised("NotImplementedError"), R |-> a.R, nprod |-> 0,
              x0 |-> <<>>]
        ELSE IF a.delta > 0 /\ pc_dim = 0
        THEN \* sing_vals[-1] of an empty array
             [out |-> Raised("IndexError"), R |-> a.R, nprod |-> 0, x0 |-> <<>>]
        ELSE IF a.delta = 0 /\ ~fullrank_precond
        THEN \* mv_pre reads V and work3, which only delta > 0 defines
             [out |-> Raised("NameError"), R |-> R, nprod |-> 3, x0 |-> x0]
        ELSE [out |-> Returned(res.x, y, res.residuals, -1, 3), R |-> R,
              nprod |-> 5 + 4 * res.i, x0 |-> x0]

PcSS1_Call ==
    /\ pc = "call"
    /\ solver = "PcSS1"
    /\ \E r \in {PcSS1Result(args)} :
         /\ out' = r.out
         /\ mem' = [mem EXCEPT !.R = r.R]
         /\ nprod' = nprod + r.nprod
         /\ loc' = [loc EXCEPT !.x = r.x0]
         /\ pc' = IF r.out.kind = "ret" THEN "ret" ELSE "raised"
    /\ UNCHANGED <<osid, driver, dloc, solver, self, args, dout, warned, lsqrCall>>

(***************************************************************************)
(* PcSS2                                                                   *)
(***************************************************************************)

RecoverXZeros(A, y, c, delta) ==
    IF delta > 0
    THEN [j \in 1..Cols(A) |-> FDiv(TMatVec(A, y)[j] - c[j], delta)]
    ELSE Zeros(Cols(A))

\* x = (A.T @ y - c) / delta, or np.NaN * np.empty(n)
RecoverX(A, y, c, delta) ==
    IF delta > 0
    THEN [j \in 1..Cols(A) |-> FDiv(TMatVec(A, y)[j] - c[j], delta)]
    ELSE NaNs(Cols(A))

PcSS2RegimeIgnoringB(b, c) ==
    IF c.isNone \/ Norm(c.v) = 0 THEN "over" ELSE "under"

\* The regime the call falls in.
PcSS2Regime(b, c) ==
    IF c.isNone \/ Norm(c.v) = 0 THEN "over"
    ELSE IF b.isNone \/ Norm(b.v) = 0 THEN "under"
    ELSE "both"

LsqrArgsWithoutWarmStart(obj, a, regime) ==
    IF regime = "over"
    THEN LsqrCallRec(a.tol, a.tol, a.iter_lim, None, obj.allow_consistent_term, FALSE)
    ELSE LsqrCallRec(a.tol, a.tol, a.iter_lim, None, FALSE, TRUE)

\* the arguments of the lsqr call of each regime: atol, btol and iter_lim in
\* both, x0 = z0 and allow_consistent_term in the overdetermined one only
LsqrArgs(obj, a, regime) ==
    IF regime = "over"
    THEN LsqrCallRec(a.tol, a.tol, a.iter_lim, a.z0, obj.allow_consistent_term, FALSE)
    ELSE LsqrCallRec(a.tol, a.tol, a.iter_lim, None, FALSE, TRUE)

\* PcSS2.__call__: [out, call, nprod]
PcSS2Result(obj, a) ==
    LET A == a.A
        m == Len(A)
        n == Cols(A)
        k == IF a.b.isNone \/ a.b.ndim = 1 THEN 1 ELSE Len(a.b.v) \div m
        pre == a_lift_precond(A, a.delta, a.R, a.upper_tri, k)
        regime == PcSS2Regime(a.b, a.c)
        \* overdetermined least squares
        b1 == IF a.delta > 0 THEN a.b.v \o Zeros(n) ELSE a.b.v
        ko == LsqrArgs(obj, a, "over")
        over == lsqr(pre.A_pc, b1, ko.atol, ko.btol, ko.iter_lim, ko.x0, ko.allow)
        xo == M_fwd(pre.M, over.x)
        yo == VSub(SubSeq(b1, 1, m), MatVec(A, xo))
        \* underdetermined least squares
        c_pc == M_adj(pre.M, a.c.v)
        ku == LsqrArgs(obj, a, "under")
        under == lsqr(Transpose(pre.A_pc), c_pc, ku.atol, ku.btol, ku.iter_lim, ku.x0,
                      ku.allow)
        yu == IF a.delta > 0 THEN SubSeq(under.x, 1, m) ELSE under.x
        xu == RecoverX(A, yu, a.c.v, a.delta)
    IN  IF regime = "over"
        THEN IF a.b.isNone
             THEN \* np.concatenate((None, ...)), or lsqr / b[:m] on None
                  [out |-> Raised(IF a.delta > 0 THEN "ValueError" ELSE "TypeError"),
                   call |-> NoCall, nprod |-> 1]
             ELSE [out |-> Returned(xo, yo, over.errors, over.istop, 4),
                   call |-> ko,
                   nprod |-> 3 + 2 * over.k]
        ELSE IF regime = "under"
        THEN [out |-> Returned(xu, yu, under.errors, under.istop, 4),
              call |-> ku,
              nprod |-> 3 + 2 * under.k]
        ELSE [out |-> Raised("ValueError"), call |-> NoCall, nprod |-> 1]

PcSS2_Call ==
    /\ pc = "call"
    /\ solver = "PcSS2"
    /\ \E r \in {PcSS2Result(self, args)} :
         /\ out' = r.out
         /\ lsqrCall' = r.call
         /\ nprod' = nprod + r.nprod
         /\ pc' = IF r.out.kind = "ret" THEN "ret" ELSE "raised"
    /\ UNCHANGED <<osid, driver, dloc, solver, self, args, mem, loc, dout, warned>>

(***************************************************************************)
(* The drivers SPS1 and SPS2                                               *)
(***************************************************************************)

NoDLoc == [A |-> <<>>, S |-> <<>>, b |-> None, c |-> None, delta |-> 0,
           tol |-> 0, iter_lim |-> 0, b0 |-> <<>>, M |-> <<>>, z_ske |-> None,
           z_pre |-> <<>>, res_norm |-> 0, rhs_norm |-> 0,
           ne_res_norm |-> 0, ne_rhs_norm |-> 0]

\* the order of the singular values of a sketch with orthogonal columns:
\* the column norms, largest first
SvdOrder(A_ske) ==
    IF Cols(A_ske) = 2 /\ Norm(Col(A_ske, 1)) < Norm(Col(A_ske, 2))
    THEN <<2, 1>> ELSE [j \in 1..Cols(A_ske) |-> j]

\* the singular values: the column norms in that order
SingVals(A_ske, ord) == [j \in 1..Cols(A_ske) |-> Norm(Col(A_ske, ord[j]))]

\* A_ske = U diag(sigma) Vh and M = Vh' / sigma
SvdFactors(A_ske, ord, sigma) ==
    [M |-> [i \in 1..Len(ord) |->
              [j \in 1..Len(ord) |-> FDiv(IF i = ord[j] THEN Scale ELSE 0, sigma[j])]],
     U |-> [i \in 1..Len(A_ske) |->
              [j \in 1..Len(ord) |-> FDiv(A_ske[i][ord[j]], sigma[j])]],
     sigma |-> sigma,
     Vh |-> [j \in 1..Len(ord) |->
              [i \in 1..Len(ord) |-> IF i = ord[j] THEN Scale ELSE 0]]]

\* svd_right_precond(A_ske) for a sketch of full column rank whose columns
\* are orthogonal
svd_right_precond(A_ske) ==
    SvdFactors(A_ske, SvdOrder(A_ske), SingVals(A_ske, SvdOrder(A_ske)))

\* the sketch S @ A, lifted, and its factors
SketchFactors(d) == svd_right_precond(a_lift(MatMul(d.S, d.A), FSqrt(d.delta)))

\* b, or np.zeros(m) in its place
OrZeros(b, m) == IF b.isNone THEN Zeros(m) ELSE b.v

SPS1DecideStrict(d, b, f, z_ske, res_norm, rhs_norm) ==
    [d EXCEPT !.b0 = b, !.M = f.M, !.z_pre = z_ske,
              !.z_ske = IF res_norm > rhs_norm THEN None ELSE Arr(z_ske),
              !.res_norm = res_norm, !.rhs_norm = rhs_norm,
              !.ne_res_norm = res_norm, !.ne_rhs_norm = rhs_norm]

\* the comparison that discards the presolve, and what it compared
SPS1Decide(d, b, f, z_ske, res_norm, rhs_norm) ==
    [d EXCEPT !.b0 = b, !.M = f.M, !.z_pre = z_ske,
              !.z_ske = IF res_norm >= rhs_norm THEN None ELSE Arr(z_ske),
              !.res_norm = res_norm, !.rhs_norm = rhs_norm,
              !.ne_res_norm = res_norm, !.ne_rhs_norm = rhs_norm]

\* lhs_ske_pc - rhs_pc and rhs_pc for x_ske = M @ z_ske
SPS1Test(d, b, f, rhs, z_ske, x_ske) ==
    SPS1Decide(d, b, f, z_ske,
               Norm(VSub(TMatVec(f.M, VAdd(TMatVec(d.A, MatVec(d.A, x_ske)),
                                           VScale(x_ske, d.delta))),
                         TMatVec(f.M, rhs))),
               Norm(TMatVec(f.M, rhs)))

\* z_ske = (Vh @ rhs) / sigma
SPS1Candidate(d, b, f, rhs, Vrhs) ==
    SPS1Test(d, b, f, rhs, [j \in 1..Len(Vrhs) |-> FDiv(Vrhs[j], f.sigma[j])],
             MatVec(f.M, [j \in 1..Len(Vrhs) |-> FDiv(Vrhs[j], f.sigma[j])]))

\* rhs = A.T @ b, less c
SPS1Rhs(d, b, f, rhs0) ==
    SPS1Candidate(d, b, f, IF d.c.isNone THEN rhs0 ELSE VSub(rhs0, d.c.v),
                  MatVec(f.Vh, IF d.c.isNone THEN rhs0 ELSE VSub(rhs0, d.c.v)))

\* SPS1.__call__ up to the call of the iterative solver
SPS1Presolve(d) ==
    SPS1Rhs(d, OrZeros(d.b, Len(d.A)), SketchFactors(d),
            TMatVec(d.A, OrZeros(d.b, Len(d.A))))

SPS1_Presolve ==
    /\ pc = "drv"
    /\ driver = "SPS1"
    /\ \E d \in {SPS1Presolve(dloc)} :
         /\ dloc' = d
         /\ args' = SolverArgs(d.A, Arr(d.b0), d.c, d.delta, d.tol, d.iter_lim,
                               d.M, FALSE, d.z_ske)
         /\ mem' = [mem EXCEPT !.R = d.M, !.z0 = d.z_ske]
    /\ pc' = "call"
    /\ UNCHANGED <<osid, driver, solver, self, loc, out, dout, warned, nprod, lsqrCall>>

\* SPS1 returns the solver's x and y
SPS1_Return ==
    /\ pc \in {"ret", "raised"}
    /\ driver = "SPS1"
    /\ dout' = IF pc = "ret" THEN Returned(out.x, out.y, out.errors, out.code, 3)
               ELSE Raised(out.exc)
    /\ pc' = "done"
    /\ UNCHANGED <<osid, driver, dloc, solver, self, args, mem, loc, out, warned, nprod,
                   lsqrCall>>

\* rows lo..hi of a matrix
Rows(X, lo, hi) == SubSeq(X, lo, hi)

\* the comparison that discards the presolve, and what it compared; the
\* preconditioned normal equations of the candidate are recorded next to it
SPS2Decide(d, b, f, A_aug, b_aug, z_ske, res_norm, rhs_norm, lhs_pc, rhs_pc) ==
    [d EXCEPT !.b0 = b, !.M = f.M, !.z_pre = z_ske,
              !.A = A_aug, !.b = Arr(b_aug),
              !.z_ske = IF res_norm >= rhs_norm THEN None ELSE Arr(z_ske),
              !.res_norm = res_norm, !.rhs_norm = rhs_norm,
              !.ne_res_norm = Norm(VSub(lhs_pc, rhs_pc)),
              !.ne_rhs_norm = Norm(rhs_pc)]

\* b_aug - A_aug @ x_ske against b_aug
SPS2Test(d, b, f, A_aug, b_aug, z_ske, x_ske) ==
    SPS2Decide(d, b, f, A_aug, b_aug, z_ske,
               Norm(VSub(b_aug, MatVec(A_aug, x_ske))), Norm(b_aug),
               TMatVec(f.M, TMatVec(A_aug, MatVec(A_aug, x_ske))),
               TMatVec(f.M, TMatVec(A_aug, b_aug)))

\* x_ske = M @ z_ske
SPS2Candidate(d, b, f, A_aug, b_aug, z_ske) ==
    SPS2Test(d, b, f, A_aug, b_aug, z_ske, MatVec(f.M, z_ske))

\* z_ske = U[:d, :].T @ (S @ b_aug[:m]), plus U[d:, :].T @ b_aug[m:]
SPS2Sketched(d, b, f, A_aug, b_aug, z1) ==
    SPS2Candidate(d, b, f, A_aug, b_aug,
                  IF d.delta > 0
                  THEN VAdd(z1, TMatVec(Rows(f.U, Len(d.S) + 1, Len(f.U)),
                                        SubSeq(b_aug, Len(d.A) + 1, Len(b_aug))))
                  ELSE z1)

SPS2Augmented(d, b, f, b_aug) ==
    SPS2Sketched(d, b, f, a_lift(d.A, FSqrt(d.delta)), b_aug,
                 TMatVec(Rows(f.U, 1, Len(d.S)),
                         MatVec(d.S, SubSeq(b_aug, 1, Len(d.A)))))

\* b_aug[:m] -= S.T @ v[:d]; b_aug[m:] -= v[d:]
ShiftRhs(d, b_aug0, v, Sv) ==
    [i \in 1..Len(b_aug0) |->
        IF i <= Len(d.A) THEN b_aug0[i] - Sv[i]
        ELSE b_aug0[i] - v[Len(d.S) + (i - Len(d.A))]]

\* v = U @ ((1/sigma) * (Vh @ c))
SPS2Shift(d, b_aug0, f, v) == ShiftRhs(d, b_aug0, v, TMatVec(d.S, SubSeq(v, 1, Len(d.S))))

ScaledByInvSigma(f, Vc) ==
    [j \in 1..Len(Vc) |-> FMul(FDiv(Scale, f.sigma[j]), Vc[j])]

\* the right-hand side of the least-squares problem
SPS2Convert(d, b, f, b_aug0) ==
    SPS2Augmented(d, b, f,
                  IF ~d.c.isNone /\ Norm(d.c.v) > 0
                  THEN SPS2Shift(d, b_aug0, f,
                                 MatVec(f.U, ScaledByInvSigma(f, MatVec(f.Vh, d.c.v))))
                  ELSE b_aug0)

SPS2Lift(d, b, f) ==
    SPS2Convert(d, b, f, IF d.delta > 0 THEN b \o Zeros(Cols(d.A)) ELSE b)

\* SPS2.__call__ up to the call of the iterative solver
SPS2Presolve(d) == SPS2Lift(d, OrZeros(d.b, Len(d.A)), SketchFactors(d))

SPS2_Presolve ==
    /\ pc = "drv"
    /\ driver = "SPS2"
    /\ \E d \in {SPS2Presolve(dloc)} :
         /\ dloc' = [d EXCEPT !.A = dloc.A, !.b = dloc.b]
         /\ args' = SolverArgs(d.A, d.b, None, 0, d.tol, d.iter_lim,
                               d.M, FALSE, d.z_ske)
         \* b_aug[:m] -= ... and b_aug[m:] -= ... write b_aug
         /\ mem' = [mem EXCEPT
                      !.R = d.M, !.z0 = d.z_ske,
                      !.b = IF ~dloc.b.isNone
                               /\ SharesMemory(IF dloc.delta > 0 THEN "concatenate"
                                               ELSE "copy")
                            THEN Arr(SubSeq(d.b.v, 1, Len(dloc.A))) ELSE @]
    /\ pc' = "call"
    /\ UNCHANGED <<osid, driver, solver, self, loc, out, dout, warned, nprod, lsqrCall>>

y_starOfSolver(A, b, res) == res.y

\* y_star = b - A @ x_star for x_star = res[0]
y_star(A, b, res) == VSub(b, MatVec(A, res.x))

\* SPS2 returns the solver's x and its own y
SPS2_Return ==
    /\ pc \in {"ret", "raised"}
    /\ driver = "SPS2"
    /\ dout' = IF pc = "ret"
               THEN Returned(out.x, y_star(dloc.A, dloc.b0, out),
                             out.errors, out.code, 3)
               ELSE Raised(out.exc)
    /\ pc' = "done"
    /\ UNCHANGED <<osid, driver, dloc, solver, self, args, mem, loc, out, warned, nprod,
                   lsqrCall>>

(***************************************************************************)
(* The calls made                                                          *)
(***************************************************************************)

Entries == {i * Scale : i \in 0..MaxEntry}
Vec2 == {<<p, q>> : p \in Entries, q \in Entries}
Mats21 == {<< <<p>>, <<q>> >> : p \in Entries, q \in Entries}
\* 1-by-1 preconditioners: 1/2, 1, 3
Precs == {<< <<Scale \div 2>> >>, << <<Scale>> >>, << <<3 * Scale>> >>}
Z0s == {None, Arr(<<0>>), Arr(<<Scale>>)}
Tols == {MIN_TOL \div 2, Scale}
IterLims == {0, 1, MaxIterLim}

BaseA == << <<Scale>>, <<Scale>> >>

\* PcSS3 on the problems it supports
InitPcSS3 ==
    /\ solver = "PcSS3"
    /\ self \in [allow_consistent_term : BOOLEAN, orig_xnorm : {TRUE}]
    /\ \E A \in Mats21, b \in Vec2, R \in Precs, z0 \in Z0s, tol \in Tols,
          iter_lim \in IterLims :
          args = SolverArgs(A, Arr(b), None, 0, tol, iter_lim, R, FALSE, z0)

\* PcSS3 on every configuration of b, c, delta and upper_tri
InitPcSS3Config ==
    /\ solver = "PcSS3"
    /\ self = [allow_consistent_term |-> FALSE, orig_xnorm |-> TRUE]
    /\ \E b \in {None, Arr(<<Scale, 0>>), Arr2(<<Scale, 0, 0, Scale>>)},
          c \in {None, Arr(<<0>>), Arr(<<Scale>>)},
          delta \in {0, Scale}, upper_tri \in BOOLEAN :
          args = SolverArgs(BaseA, b, c, delta, Scale, 2, << <<Scale>> >>,
                            upper_tri, None)

\* PcSS3 from a warm start that the preconditioner maps to zero
InitPcSS3Warm ==
    /\ solver = "PcSS3"
    /\ self \in [allow_consistent_term : BOOLEAN, orig_xnorm : {TRUE}]
    /\ \E A \in {BaseA, << <<0>>, <<0>> >>},
          b \in {<<Scale, 0>>, <<Scale, 2 * Scale>>},
          R \in {<< <<0>> >>, << <<1>> >>},
          z0 \in {Arr(<<1>>), Arr(<<Scale>>)} :
          args = SolverArgs(A, Arr(b), None, 0, Scale, 2, R, FALSE, z0)

\* PcSS3 on a problem with two unknowns of different scale
InitPcSS3Descent ==
    /\ solver = "PcSS3"
    /\ self = [allow_consistent_term |-> FALSE, orig_xnorm |-> TRUE]
    /\ \E b \in {<<4 * Scale, Scale \div 4>>, <<Scale, Scale>>},
          iter_lim \in {1, 2} :
          args = SolverArgs(<< <<Scale, 0>>, <<0, 4 * Scale>> >>, Arr(b), None, 0,
                            Scale \div 4, iter_lim,
                            << <<Scale, 0>>, <<0, Scale>> >>, FALSE, None)

\* PcSS2 in its three regimes
InitPcSS2 ==
    /\ solver = "PcSS2"
    /\ self \in [allow_consistent_term : BOOLEAN, orig_xnorm : {TRUE}]
    /\ \E A \in {<< <<Scale>>, <<0>> >>, << <<Scale>>, <<Scale>> >>,
                 << <<2 * Scale>>, <<Scale>> >>},
          b \in {None, Arr(<<0, 0>>), Arr(<<Scale, 0>>), Arr(<<Scale, 2 * Scale>>),
                 Arr2(<<Scale, 0, 0, Scale>>), Arr2(<<0, 0, 0, 0>>)},
          c \in {None, Arr(<<0>>), Arr(<<Scale>>)},
          delta \in {0, Scale}, R \in {<< <<Scale>> >>, << <<2 * Scale>> >>},
          upper_tri \in BOOLEAN, z0 \in {None, Arr(<<Scale>>)},
          iter_lim \in {0, 2} :
          /\ b.ndim = 2 => PcSS2Regime(b, c) # "over"
          /\ args = SolverArgs(A, b, c, delta, Scale \div 4, iter_lim, R, upper_tri, z0)

\* PcSS1, the configurations it rejects included
InitPcSS1 ==
    /\ solver = "PcSS1"
    /\ self = [allow_consistent_term |-> FALSE, orig_xnorm |-> TRUE]
    /\ \E A \in Mats21 \ {<< <<0>>, <<0>> >>},
          b \in {None, Arr(<<Scale, 0>>), Arr(<<Scale, 2 * Scale>>),
                 Arr2(<<Scale, 0, 0, Scale>>)},
          c \in {None, Arr(<<Scale>>)},
          delta \in {0, Scale}, R \in {<< <<Scale>> >>, << <<2 * Scale>> >>},
          upper_tri \in BOOLEAN, z0 \in {None, Arr(<<Scale>>)},
          iter_lim \in {0, 2} :
          args = SolverArgs(A, b, c, delta, Scale \div 4, iter_lim, R, upper_tri, z0)

\* PcSS1 with a preconditioner of fewer than n columns, for n = 1 and n = 2
InitPcSS1LowRank ==
    /\ solver = "PcSS1"
    /\ self = [allow_consistent_term |-> FALSE, orig_xnorm |-> TRUE]
    /\ \E p \in {[A |-> BaseA, R |-> << <<>> >>],
                  [A |-> << <<Scale, 0>>, <<0, 2 * Scale>> >>, R |-> << <<>>, <<>> >>],
                  [A |-> << <<Scale, 0>>, <<0, 2 * Scale>> >>,
                   R |-> << <<Scale>>, <<0>> >>]},
          b \in {Arr(<<Scale, 0>>), Arr(<<Scale, 2 * Scale>>)},
          delta \in {0, Scale}, z0 \in {None, Arr(<<Scale>>)}, iter_lim \in {0, 2} :
          args = SolverArgs(p.A, b, None, delta, Scale \div 4, iter_lim, p.R, FALSE, z0)

\* the problems handed to a driver: a sketching operator S whose sketch of A
\* has orthogonal nonzero columns
DriverCases ==
    {[NoDLoc EXCEPT !.A = A, !.S = S, !.b = b, !.c = c, !.delta = delta,
                    !.tol = Scale \div 4, !.iter_lim = 2] :
        A \in {<< <<Scale>>, <<0>> >>, << <<Scale>>, <<Scale>> >>,
               << <<2 * Scale>>, <<Scale>> >>},
        S \in {<< <<Scale, 0>>, <<0, Scale>> >>, << <<Scale, Scale>> >>},
        b \in {None, Arr(<<Scale, 0>>), Arr(<<Scale, 2 * Scale>>)},
        c \in {None, Arr(<<Scale>>)},
        delta \in {0, Scale}}
    \cup
    {[NoDLoc EXCEPT !.A = << <<3 * Scale, 0>>, <<0, Scale \div 2>> >>, !.S = S,
                    !.b = Arr(<<3 * Scale, 2 * Scale>>), !.c = None,
                    !.delta = delta, !.tol = Scale \div 4, !.iter_lim = 2] :
        S \in {<< <<Scale, 0>>, <<0, Scale>> >>, << <<4 * Scale, 0>>, <<0, 3 * Scale>> >>},
        delta \in {0, Scale}}

(***************************************************************************)
(* drivers/interpolative.py: the one-sided interpolative decompositions.    *)
(* Matrices hold integers and the arithmetic is exact: a coefficient        *)
(* matrix is kept as an integer matrix num over a common denominator den.   *)
(***************************************************************************)
MaxRankID == 2

NoOsid == [A |-> <<>>, k |-> 0, over |-> 0, axis |-> 0, Sk |-> <<>>,
           M |-> [num |-> <<>>, den |-> 1], P |-> <<>>,
           kind |-> "none", exc |-> ""]

IDot(u, v) == SumSeq([i \in 1..Len(u) |-> u[i] * v[i]])
\* X @ Y
IMatMul(X, Y) == [i \in 1..Len(X) |-> [j \in 1..Cols(Y) |-> IDot(X[i], Col(Y, j))]]
\* A[P, :] and A[:, P]
TakeRows(A, P) == [i \in 1..Len(P) |-> A[P[i]]]
TakeCols(A, P) == [i \in 1..Len(A) |-> [j \in 1..Len(P) |-> A[i][P[j]]]]

\* determinant and adjugate of a matrix of order at most MaxRankID
Det(G) == IF Len(G) = 1 THEN G[1][1] ELSE G[1][1] * G[2][2] - G[1][2] * G[2][1]
Adj(G) == IF Len(G) = 1 THEN << <<1>> >>
          ELSE << <<G[2][2], -G[1][2]>>, <<-G[2][1], G[1][1]>> >>

\* the rank of a matrix of rank at most MaxRankID
Rank(X) ==
    IF \A i \in 1..Len(X) : \A j \in 1..Cols(X) : X[i][j] = 0 THEN 0
    ELSE IF \E i1, i2 \in 1..Len(X) : \E j1, j2 \in 1..Cols(X) :
                X[i1][j1] * X[i2][j2] - X[i1][j2] * X[i2][j1] # 0
         THEN 2
         ELSE 1

\* pinv(C) @ T for C with independent columns: (C'C)^-1 C' T
ApplyPinvOnLeft(T, C) ==
    LET G == IMatMul(Transpose(C), C)
    IN  [num |-> IMatMul(Adj(G), IMatMul(Transpose(C), T)), den |-> Det(G)]
\* T @ pinv(B) for B with independent rows
ApplyPinvOnRight(T, B) ==
    LET r == ApplyPinvOnLeft(Transpose(T), Transpose(B))
    IN  [num |-> Transpose(r.num), den |-> r.den]

\* The column orders la.qr(X, pivoting=True) can return: each pivot is a
\* column of greatest norm among the remaining ones, after the projection
\* onto the span of the pivots already chosen has been removed.
ColumnOrders(n) ==
    {p \in [1..n -> 1..n] : \A i, j \in 1..n : p[i] = p[j] => i = j}
ColNorm2(X, j) == IDot(Col(X, j), Col(X, j))
Residual2(X, p, j) ==
    ColNorm2(X, j) * ColNorm2(X, p) - IDot(Col(X, j), Col(X, p)) * IDot(Col(X, j), Col(X, p))
QrPivots(X) ==
    {J \in ColumnOrders(Cols(X)) :
        /\ \A j \in 1..Cols(X) : ColNorm2(X, J[1]) >= ColNorm2(X, j)
        /\ Cols(X) >= 2 =>
              \A j \in 1..Cols(X) \ {J[1]} :
                  Residual2(X, J[1], J[2]) >= Residual2(X, J[1], j)}

TruncateTail(J, k) == SubSeq(J, Len(J) - k + 1, Len(J))

\* J[:k]
Truncate(J, k) == SubSeq(J, 1, k)

\* comps.interpolative.qrcp_osid: the results of a column ID (axis 1) or a
\* row ID (axis 0) of Y by pivoted QR
QrcpOsid(Y, k, axis) ==
    IF axis = 1
    THEN {[M |-> ApplyPinvOnLeft(Y, TakeCols(Y, Truncate(J, k))), P |-> Truncate(J, k)] :
             J \in QrPivots(Y)}
    ELSE {[M |-> ApplyPinvOnRight(Y, TakeRows(Y, Truncate(J, k))), P |-> Truncate(J, k)] :
             J \in QrPivots(Transpose(Y))}

\* The sketching operators sk_op(A, d, rng) can return for A with n columns:
\* n-by-d matrices.  A Gaussian sketch keeps the rank of A, up to d, with
\* probability one; only such sketches are drawn.
SketchColumns(n) ==
    {[i \in 1..n |-> 1], [i \in 1..n |-> i],
     [i \in 1..n |-> IF i = 1 THEN 1 ELSE -1],
     [i \in 1..n |-> IF i = n THEN 2 ELSE 0]}
SkOp(A, d) ==
    {S \in {Transpose(c) : c \in [1..d -> SketchColumns(Cols(A))]} :
        LET r == Rank(A) IN Rank(IMatMul(A, S)) = IF r < d THEN r ELSE d}

OsidRet(o, Sk, r) ==
    [o EXCEPT !.Sk = Sk, !.M = r.M, !.P = r.P, !.kind = "ret"]
OsidRaise(o) == [o EXCEPT !.kind = "raised", !.exc = "ValueError"]

\* OSID1.__call__
OSID1_Call ==
    /\ driver = "OSID1" /\ pc = "id"
    /\ \/ /\ osid.axis = 0
          /\ \E Sk \in SkOp(osid.A, osid.k + osid.over) :
                \E r \in QrcpOsid(IMatMul(osid.A, Sk), osid.k, 0) :
                    osid' = OsidRet(osid, Sk, r)
       \/ /\ osid.axis = 1
          /\ \E S \in SkOp(Transpose(osid.A), osid.k + osid.over) :
                \E r \in QrcpOsid(IMatMul(Transpose(S), osid.A), osid.k, 1) :
                    osid' = OsidRet(osid, Transpose(S), r)
       \/ /\ osid.axis \notin {0, 1}
          /\ osid' = OsidRaise(osid)
    /\ pc' = "iddone"
    /\ UNCHANGED <<driver, dloc, solver, self, args, mem, loc, out, dout, warned,
                   nprod, lsqrCall>>

\* OSID2.__call__
OSID2_Call ==
    /\ driver = "OSID2" /\ pc = "id"
    /\ \/ /\ osid.axis = 0
          /\ \E Sk \in SkOp(osid.A, osid.k + osid.over) :
                \E J \in QrPivots(Transpose(IMatMul(osid.A, Sk))) :
                    LET Is == Truncate(J, osid.k)
                    IN  osid' = OsidRet(osid, Sk,
                                    [M |-> ApplyPinvOnRight(osid.A, TakeRows(osid.A, Is)),
                                     P |-> Is])
       \/ /\ osid.axis = 1
          /\ \E S \in SkOp(Transpose(osid.A), osid.k + osid.over) :
                \E J \in QrPivots(IMatMul(Transpose(S), osid.A)) :
                    LET Js == Truncate(J, osid.k)
                    IN  osid' = OsidRet(osid, Transpose(S),
                                    [M |-> ApplyPinvOnLeft(osid.A, TakeCols(osid.A, Js)),
                                     P |-> Js])
       \/ /\ osid.axis \notin {0, 1}
          /\ osid' = OsidRaise(osid)
    /\ pc' = "iddone"
    /\ UNCHANGED <<driver, dloc, solver, self, args, mem, loc, out, dout, warned,
                   nprod, lsqrCall>>

\* the matrices the ID drivers are called on: tall ones and their transposes,
\* of rank one and two
TallMatrices ==
    {<< <<1, 2>>, <<2, 4>>, <<0, 0>> >>,
     << <<1, 1>>, <<1, 1>>, <<2, 2>> >>,
     << <<2, 0>>, <<0, 1>>, <<0, 1>> >>,
     << <<1, 2>>, <<3, 1>>, <<4, 3>> >>}

InitOSID ==
    /\ driver \in {"OSID1", "OSID2"}
    /\ pc = "id"
    /\ solver = "none"
    /\ dloc = NoDLoc
    /\ self = [allow_consistent_term |-> FALSE, orig_xnorm |-> TRUE]
    /\ args = SolverArgs(<<>>, None, None, 0, 0, 0, <<>>, FALSE, None)
    /\ mem = [R |-> <<>>, z0 |-> None, A |-> <<>>, b |-> None, c |-> None]
    /\ \E A \in TallMatrices \cup {Transpose(T) : T \in TallMatrices} :
       \E k \in 1..MaxRankID, over \in {0, 1}, axis \in {0, 1, 2} :
          /\ k <= Rank(A)
          /\ osid = [NoOsid EXCEPT !.A = A, !.k = k, !.over = over, !.axis = axis]

InitDriver ==
    /\ \/ driver = "SPS1" /\ solver \in {"PcSS1", "PcSS2", "PcSS3"}
       \/ driver = "SPS2" /\ solver \in {"PcSS2", "PcSS3"}
    /\ self = [allow_consistent_term |-> FALSE, orig_xnorm |-> TRUE]
    /\ dloc \in DriverCases
    /\ pc = "drv"
    /\ osid = NoOsid
    /\ args = SolverArgs(<<>>, None, None, 0, 0, 0, <<>>, FALSE, None)
    /\ mem = [R |-> <<>>, z0 |-> None, A |-> dloc.A, b |-> dloc.b, c |-> dloc.c]

InitSolver ==
    /\ driver = "none"
    /\ dloc = NoDLoc
    /\ pc = "call"
    /\ osid = NoOsid
    /\ \/ InitPcSS3
       \/ InitPcSS3Config
       \/ InitPcSS3Warm
       \/ InitPcSS3Descent
       \/ InitPcSS2
       \/ InitPcSS1
       \/ InitPcSS1LowRank
    /\ mem = [R |-> args.R, z0 |-> args.z0, A |-> args.A, b |-> args.b, c |-> args.c]

Init ==
    /\ loc = NoLoc
    /\ out = NoOut
    /\ dout = NoOut
    /\ warned = {}
    /\ nprod = 0
    /\ lsqrCall = NoCall
    /\ \/ InitSolver
       \/ InitDriver
       \/ InitOSID

Next ==
    \/ PcSS3_Call
    \/ PcSS3_Iter
    \/ PcSS3_Return
    \/ PcSS2_Call
    \/ PcSS1_Call
    \/ SPS1_Presolve
    \/ SPS1_Return
    \/ SPS2_Presolve
    \/ SPS2_Return
    \/ OSID1_Call
    \/ OSID2_Call

Spec == Init /\ [][Next]_vars


(***************************************************************************)
(* Properties                                                              *)
(***************************************************************************)

\* an array that is given and not all zero
Nonzero(a) == ~a.isNone /\ Norm(a.v) > 0

\* min(iter_lim, 5n)
ClampedLimit == IF args.iter_lim < 5 * Cols(args.A) THEN args.iter_lim ELSE 5 * Cols(args.A)

\* the tolerance, floored at MIN_TOL
FlooredTol == IF args.tol < MIN_TOL THEN MIN_TOL ELSE args.tol

\* the solver has finished, one way or the other
SolverDone == pc \in {"ret", "raised", "done"}

\* C1: PcSS2 called with both b and c nonzero raises ValueError and returns
\* no result, whatever the shape of b, delta, z0 and upper_tri.
C1_BothNonzeroRaisesValueError ==
    (solver = "PcSS2" /\ SolverDone /\ Nonzero(args.b) /\ Nonzero(args.c))
        => (out.kind = "raise" /\ out.exc = "ValueError" /\ out.x = <<>>)

C1_Witness ==
    /\ solver = "PcSS2" /\ pc = "raised" /\ out.exc = "ValueError"
    /\ Nonzero(args.b) /\ Nonzero(args.c)
    /\ args.b.ndim = 2 /\ args.delta > 0 /\ args.upper_tri /\ ~args.z0.isNone

\* C2: PcSS3 returns code 7 only after the full min(iter_lim, 5n) refinement
\* steps with the convergence test still unmet; a run that stops before the
\* limit never reports 7.
C2_Code7OnlyAtIterationLimit ==
    (solver = "PcSS3" /\ out.kind = "ret" /\ out.code = 7)
        => /\ loc.steps = ClampedLimit
           /\ Gt(error_func(self.allow_consistent_term, loc.metric1, loc.metric2),
                 FlooredTol)

\* C3: a PcSS3 code of convergence means its criterion holds at the floored
\* tolerance for the last iterate: 2 implies metric2 <= tol; 1 implies the
\* flag is set and metric1 <= tol; and with the flag set and both metrics
\* <= tol the code is 1.
C3_ConvergenceCodesMeetCriterion ==
    (solver = "PcSS3" /\ out.kind = "ret")
        => /\ out.code \in {1, 2, 7}
           /\ out.code = 2 => Le(loc.metric2, FlooredTol)
           /\ out.code = 1 => (self.allow_consistent_term
                               /\ Le(loc.metric1, FlooredTol))
           /\ (self.allow_consistent_term /\ Le(loc.metric1, FlooredTol)
               /\ Le(loc.metric2, FlooredTol)) => out.code = 1

C3_Witness ==
    /\ solver = "PcSS3" /\ out.kind = "ret" /\ out.code = 1
    /\ self.allow_consistent_term /\ loc.steps >= 1
    /\ Le(loc.metric1, FlooredTol) /\ Le(loc.metric2, FlooredTol)
    /\ args.tol < MIN_TOL

\* C4: PcSS3 takes at most min(iter_lim, 5n) refinement steps, its trace has
\* at most min(iter_lim, 5n) + 1 entries, and no write falls outside the
\* error buffer.
C4_StepsAndTraceWithinLimit ==
    (solver = "PcSS3" /\ pc \in {"loop", "ret", "raised", "done"})
        => /\ loc.steps <= ClampedLimit
           /\ out.kind = "ret" => Len(out.errors) <= ClampedLimit + 1
           /\ out.exc # "IndexError"

C4_Witness ==
    /\ solver = "PcSS3" /\ out.kind = "ret"
    /\ args.iter_lim > 5 * Cols(args.A)
    /\ loc.steps = ClampedLimit
    /\ Len(out.errors) = ClampedLimit + 1

\* the configurations PcSS3 implements
PcSS3Supported ==
    /\ ~args.b.isNone /\ args.b.ndim = 1 /\ Len(args.b.v) = Len(args.A)
    /\ args.c.isNone /\ args.delta = 0 /\ ~args.upper_tri

\* C5: PcSS3 replaces a tolerance below MIN_TOL by MIN_TOL and an iter_lim
\* above 5n by 5n, warns about a parameter exactly when it replaced it, leaves
\* parameters in range unchanged, and goes on to solve in every combination.
C5_ParametersCorrectedWithWarning ==
    (solver = "PcSS3" /\ pc \in {"loop", "ret", "raised", "done"} /\ PcSS3Supported)
        => /\ loc.it >= 1
           /\ loc.tol = FlooredTol
           /\ loc.iter_lim = ClampedLimit + 1
           /\ Len(loc.errors) = ClampedLimit + 2
           /\ ("tol" \in warned) <=> (args.tol < MIN_TOL)
           /\ ("iter_lim" \in warned) <=> (args.iter_lim > 5 * Cols(args.A))

C5_Witness ==
    /\ solver = "PcSS3" /\ out.kind = "ret" /\ loc.steps >= 1
    /\ args.tol < MIN_TOL /\ loc.tol = MIN_TOL
    /\ args.iter_lim > 5 * Cols(args.A) /\ loc.iter_lim = 5 * Cols(args.A) + 1
    /\ warned = {"tol", "iter_lim"}

\* the configurations PcSS1 and PcSS3 do not implement
Unsupported ==
    \/ solver = "PcSS1" /\ (args.b.ndim = 2 \/ args.upper_tri)
    \/ solver = "PcSS3" /\ (~args.c.isNone \/ args.delta > 0 \/ args.upper_tri)

\* C6: every unsupported configuration of PcSS1 and PcSS3 raises
\* NotImplementedError, and no other error, before any product with A or R
\* and without modifying an argument or returning a result.
C6_UnsupportedRaisesNotImplemented ==
    (driver = "none" /\ pc # "call" /\ Unsupported)
        => /\ out.kind = "raise" /\ out.exc = "NotImplementedError"
           /\ nprod = 0
           /\ mem.R = args.R /\ mem.z0 = args.z0

\* b - A @ x for the A and b of a call, b = None read as zeros
ResidualOf(A, b, x) == VSub(IF b.isNone THEN Zeros(Len(A)) ELSE b.v, MatVec(A, x))

\* C7 as stated: at return y = b - A x for the returned x and the original A
\* and b, for PcSS1, for PcSS2 in either regime, for PcSS3, SPS1 and SPS2.
C7_YIsResidualEverywhere ==
    /\ (driver = "none" /\ out.kind = "ret" /\ args.b.ndim < 2)
           => out.y = ResidualOf(args.A, args.b, out.x)
    /\ (driver # "none" /\ dout.kind = "ret")
           => dout.y = ResidualOf(dloc.A, dloc.b, dout.x)

\* PcSS2 solving the underdetermined problem
PcSS2Under == solver = "PcSS2" /\ ~Nonzero(args.b) /\ Nonzero(args.c)

\* C7, amended: y = b - A x holds at return for PcSS1, for PcSS2 in the
\* overdetermined regime, for PcSS3 and for SPS2; SPS1 returns the y of its
\* solver, so it holds there unless the solver is PcSS2 in the
\* underdetermined regime, whose y is the LSQR solution.
C7_YIsResidualExceptUnderdetermined ==
    /\ (driver = "none" /\ out.kind = "ret" /\ ~PcSS2Under)
           => out.y = ResidualOf(args.A, args.b, out.x)
    /\ (driver = "SPS2" /\ dout.kind = "ret")
           => dout.y = ResidualOf(dloc.A, dloc.b, dout.x)
    /\ (driver = "SPS1" /\ dout.kind = "ret")
           => /\ dout.y = out.y
              /\ ~PcSS2Under => dout.y = ResidualOf(dloc.A, dloc.b, dout.x)

C7_Witness ==
    /\ driver = "SPS2" /\ dout.kind = "ret" /\ dloc.delta > 0
    /\ Nonzero(dloc.b) /\ Norm(dout.x) > 0
    /\ Len(dout.y) = Len(dloc.A) /\ Len(out.y) > Len(dloc.A)

\* C8: in PcSS2's underdetermined regime y is the first m entries of the LSQR
\* solution of the adjoint system, x = (A'y - c)/delta when delta > 0 and a
\* length-n vector of NaN when delta = 0, and the call returns normally with
\* LSQR's trace and termination code.
C8_UnderdeterminedRecovery ==
    (PcSS2Under /\ SolverDone)
        => LET pre == a_lift_precond(args.A, args.delta, args.R, args.upper_tri, 1)
               sol == lsqr(Transpose(pre.A_pc), M_adj(pre.M, args.c.v), args.tol,
                           args.tol, args.iter_lim, None, FALSE)
               y == SubSeq(sol.x, 1, Len(args.A))
           IN  /\ out.kind = "ret" /\ out.arity = 4
               /\ out.y = y
               /\ out.errors = sol.errors /\ out.code = sol.istop
               /\ Len(out.x) = Cols(args.A)
               /\ args.delta > 0 =>
                     \A j \in 1..Cols(args.A) :
                        out.x[j] = FDiv(TMatVec(args.A, y)[j] - args.c.v[j], args.delta)
               /\ args.delta = 0 => \A j \in 1..Cols(args.A) : IsNaN(out.x[j])

C8_Witness ==
    /\ PcSS2Under /\ out.kind = "ret" /\ args.delta = 0
    /\ out.x = <<NaN>> /\ Norm(out.y) > 0 /\ Len(out.errors) >= 2

\* a step size that is NaN or exactly zero: in the main loop, or from z0
DegenerateInLoop == loc.broke
DegenerateAtStart == loc.viewz0 /\ (IsNaN(loc.alpha0) \/ loc.alpha0 = 0)

\* C9: a NaN or zero step size of PcSS3, the step from the warm start z0
\* included, is never fatal: the solver stops early without raising, records
\* the last valid error and returns the x held before the step, free of NaN.
C9_DegenerateStepNeverFatal ==
    (solver = "PcSS3" /\ pc \in {"loop", "ret", "raised", "done"}
        /\ (DegenerateInLoop \/ DegenerateAtStart))
        => /\ out.kind # "raise"
           /\ out.kind = "ret" => ~HasNaN(out.x)
           /\ DegenerateAtStart => loc.steps = 0

\* the presolve's preconditioned normal-equation residual is not smaller
\* than the preconditioned right-hand side
NormalEqDiscard == dloc.ne_res_norm >= dloc.ne_rhs_norm

\* C10 as stated: both drivers hand None to the solver exactly when the
\* presolve's preconditioned normal-equation residual norm is >= the
\* right-hand-side norm, and z_ske unchanged otherwise; the solver runs
\* either way.
C10_DiscardOnNormalEquations ==
    (driver # "none" /\ pc # "drv")
        => /\ args.z0.isNone <=> NormalEqDiscard
           /\ ~args.z0.isNone => args.z0.v = dloc.z_pre
           /\ pc = "done" => out.kind # "none"

\* x_ske = M @ z_ske of the presolve
XSke == MatVec(dloc.M, dloc.z_pre)

\* SPS1 discards on the preconditioned normal equations of (A, b, c, delta)
SPS1Discard ==
    LET rhs0 == TMatVec(dloc.A, dloc.b0)
        rhs == IF dloc.c.isNone THEN rhs0 ELSE VSub(rhs0, dloc.c.v)
        lhs == VAdd(TMatVec(dloc.A, MatVec(dloc.A, XSke)), VScale(XSke, dloc.delta))
    IN  Norm(VSub(TMatVec(dloc.M, lhs), TMatVec(dloc.M, rhs)))
            >= Norm(TMatVec(dloc.M, rhs))

\* SPS2 discards on the residual of the least-squares problem it solves
SPS2Discard ==
    Norm(VSub(args.b.v, MatVec(args.A, XSke))) >= Norm(args.b.v)

\* C10, amended: SPS1 hands None to the solver exactly when the presolve's
\* preconditioned normal-equation residual norm is >= the preconditioned
\* right-hand-side norm, SPS2 exactly when the least-squares residual norm
\* of the presolve is >= the norm of the transformed b; otherwise each hands
\* over z_ske unchanged, and the solver runs either way.
C10_DiscardPerDriver ==
    (driver # "none" /\ pc # "drv")
        => /\ driver = "SPS1" => (args.z0.isNone <=> SPS1Discard)
           /\ driver = "SPS2" => (args.z0.isNone <=> SPS2Discard)
           /\ ~args.z0.isNone => args.z0.v = dloc.z_pre
           /\ pc = "done" => out.kind # "none"

C10_Witness ==
    /\ driver = "SPS1" /\ pc = "done" /\ dout.kind = "ret"
    /\ args.z0.isNone /\ dloc.res_norm = dloc.rhs_norm /\ dloc.rhs_norm = 0

\* PcSS1 given a preconditioner with fewer columns than A, in a configuration
\* it implements
PcSS1LowRank ==
    /\ driver = "none" /\ solver = "PcSS1" /\ pc # "call"
    /\ args.b.ndim < 2 /\ ~args.upper_tri
    /\ Cols(args.R) < Cols(args.A)

\* conjugate gradients on the normal equations of the call, preconditioned
\* by the identity and started from zero
IdentityPcg ==
    LET n == Cols(args.A)
        rhs0 == TMatVec(args.A, IF args.b.isNone THEN Zeros(Len(args.A)) ELSE args.b.v)
        rhs == IF args.c.isNone THEN rhs0 ELSE VSub(rhs0, args.c.v)
    IN  pcg(args.A, args.delta, ScaledEye(n, Scale), ScaledEye(n, Scale), TRUE, rhs,
            args.iter_lim, args.tol, Zeros(n))

\* C11: PcSS1 accepts a preconditioner R with fewer than n columns for every
\* delta >= 0 and returns normally; when R has no column at all the run is
\* that of identity-preconditioned conjugate gradients: the same x and the
\* same error trace.
C11_LowRankPreconditionerAccepted ==
    PcSS1LowRank
        => /\ out.kind = "ret"
           /\ Cols(args.R) = 0 => /\ out.x = IdentityPcg.x
                                  /\ out.errors = IdentityPcg.residuals

\* C12: the iterate PcSS1 hands to pcg is R @ z0, for the R the caller
\* supplied, when R has n columns and z0 is given, and the zero vector
\* otherwise, for delta = 0 and for delta > 0.
C12_InitialIterateFromSuppliedR ==
    (driver = "none" /\ solver = "PcSS1" /\ pc # "call" /\ loc.x # <<>>)
        => loc.x = IF Cols(args.R) = Cols(args.A) /\ ~args.z0.isNone
                   THEN MatVec(args.R, args.z0.v)
                   ELSE Zeros(Cols(args.A))

\* the problem data the outermost caller passed
CallerData ==
    IF driver = "none" THEN [A |-> args.A, b |-> args.b, c |-> args.c]
    ELSE [A |-> dloc.A, b |-> dloc.b, c |-> dloc.c]

\* C13: no solver and no driver changes the caller's A, b or c: after a call
\* of PcSS1, PcSS2, PcSS3, SPS1 or SPS2, returning or raising, they hold the
\* values they held before it.
C13_ProblemDataNotMutated ==
    (pc \in {"loop", "ret", "raised", "done"})
        => /\ mem.A = CallerData.A
           /\ mem.b = CallerData.b
           /\ mem.c = CallerData.c

\* SPS2 has shifted its own b_aug by c and the solver has run on it
C13_Witness ==
    /\ driver = "SPS2" /\ pc = "done" /\ dout.kind = "ret"
    /\ dloc.delta = 0 /\ ~dloc.b.isNone /\ Nonzero(dloc.c)
    /\ args.b.v # dloc.b.v
    /\ mem.b = dloc.b

\* C14: a solve call leaves the caller's R and z0 as they were, so that a
\* second call of PcSS1 with the same argument objects returns what the first
\* returned.
C14_NoStateLeftInArguments ==
    (driver = "none" /\ SolverDone)
        => /\ mem.R = args.R
           /\ mem.z0 = args.z0
           /\ (solver = "PcSS1" /\ out.kind = "ret")
                  => PcSS1Result([args EXCEPT !.R = mem.R, !.z0 = mem.z0]).out = out

\* C15: the error trace of PcSS3 does not increase across a step whose step
\* size is neither NaN nor zero: the error after step i + 1 is at most the
\* error after step i.
C15_ErrorTraceNonIncreasing ==
    (solver = "PcSS3" /\ pc \in {"loop", "ret"} /\ loc.finite)
        => \A i \in 1..loc.steps : loc.errors[i + 1] <= loc.errors[i]

\* C16: a call of PcSS1, PcSS2 or PcSS3 in which b and c are both absent or
\* all zero is answered with an error, never with a result.
C16_BothAbsentIsRejected ==
    (driver = "none" /\ SolverDone /\ ~Nonzero(args.b) /\ ~Nonzero(args.c))
        => out.kind = "raise"

\* C19: the trace PcSS3 returns has one entry for the initial iterate and one
\* for each iteration that updated the iterate, in order: no placeholder is
\* left in it, no computed error is missing from it, and it has no entry for
\* an iteration that did not update the iterate.
C19_TraceCountsIterations ==
    (solver = "PcSS3" /\ out.kind = "ret")
        => /\ Len(out.errors) = loc.steps + 1
           /\ \A i \in 1..Len(out.errors) :
                  out.errors[i] = loc.errors[i] /\ out.errors[i] >= 0

\* the lsqr call PcSS2 made, run again with the arguments it was given
LsqrOfCall ==
    LET pre == a_lift_precond(args.A, args.delta, args.R, args.upper_tri, 1)
        b1 == IF args.delta > 0 THEN args.b.v \o Zeros(Cols(args.A)) ELSE args.b.v
    IN  IF lsqrCall.transposed
        THEN lsqr(Transpose(pre.A_pc), M_adj(pre.M, args.c.v), lsqrCall.atol,
                  lsqrCall.btol, lsqrCall.iter_lim, lsqrCall.x0, lsqrCall.allow)
        ELSE lsqr(pre.A_pc, b1, lsqrCall.atol, lsqrCall.btol, lsqrCall.iter_lim,
                  lsqrCall.x0, lsqrCall.allow)

\* what both regimes hand to lsqr, and what PcSS2 returns of its result
LsqrCommon ==
    /\ lsqrCall.made
    /\ lsqrCall.atol = args.tol /\ lsqrCall.btol = args.tol
    /\ lsqrCall.iter_lim = args.iter_lim
    /\ out.errors = LsqrOfCall.errors /\ out.code = LsqrOfCall.istop

\* C20 as stated: in each regime of PcSS2 that reaches lsqr, the call gets
\* tol as atol and btol, iter_lim, z0 as the initial point and the solver's
\* allow_consistent_term, and the trace and code returned are those of lsqr.
C20_LsqrGetsEveryArgument ==
    (solver = "PcSS2" /\ driver = "none" /\ out.kind = "ret")
        => /\ LsqrCommon
           /\ lsqrCall.x0 = args.z0
           /\ lsqrCall.allow = self.allow_consistent_term

\* C20, amended: both regimes hand lsqr tol as atol and btol and iter_lim,
\* and return its trace and code; the overdetermined regime also hands it z0
\* as the initial point and allow_consistent_term, while the underdetermined
\* regime starts lsqr from zero and leaves the flag at its default.
C20_LsqrArgumentsPerRegime ==
    (solver = "PcSS2" /\ driver = "none" /\ out.kind = "ret")
        => /\ LsqrCommon
           /\ lsqrCall.transposed = PcSS2Under
           /\ ~PcSS2Under => /\ lsqrCall.x0 = args.z0
                             /\ lsqrCall.allow = self.allow_consistent_term
           /\ PcSS2Under => /\ lsqrCall.x0 = None
                            /\ lsqrCall.allow = FALSE

C20_Witness ==
    /\ solver = "PcSS2" /\ driver = "none" /\ out.kind = "ret"
    /\ PcSS2Under /\ ~args.z0.isNone /\ self.allow_consistent_term
    /\ lsqrCall.made /\ lsqrCall.x0 = None /\ ~lsqrCall.allow
    /\ Len(out.errors) >= 2

C18_WitnessWarm ==
    /\ solver = "PcSS3" /\ pc = "loop" /\ loc.exact
    /\ loc.viewz0 /\ Norm(loc.x) > 0

\* C17: called with k equal to the exact rank of A, for any oversampling and
\* for tall and wide A, OSID1 and OSID2 return a coefficient matrix M and k
\* distinct in-range indices P with A = M @ A[P, :] (axis 0) or
\* A = A[:, P] @ M (axis 1); an axis other than 0 and 1 raises ValueError.
Distinct(P) == \A i, j \in 1..Len(P) : P[i] = P[j] => i = j
ScaleMatrix(d, X) == [i \in 1..Len(X) |-> [j \in 1..Cols(X) |-> d * X[i][j]]]
Reproduces(o) ==
    /\ o.M.den # 0
    /\ ScaleMatrix(o.M.den, o.A) =
          IF o.axis = 0 THEN IMatMul(o.M.num, TakeRows(o.A, o.P))
                        ELSE IMatMul(TakeCols(o.A, o.P), o.M.num)
C17_ExactRankReproduced ==
    (driver \in {"OSID1", "OSID2"} /\ pc = "iddone")
        => /\ osid.axis \notin {0, 1} => osid.kind = "raised" /\ osid.exc = "ValueError"
           /\ (osid.axis \in {0, 1} /\ osid.k = Rank(osid.A)) =>
                 /\ osid.kind = "ret"
                 /\ Len(osid.P) = osid.k /\ Distinct(osid.P)
                 /\ \A i \in 1..Len(osid.P) :
                       osid.P[i] \in 1..(IF osid.axis = 0 THEN Len(osid.A) ELSE Cols(osid.A))
                 /\ Reproduces(osid)

\* a rank-two row ID of a tall matrix with oversampling, by OSID2
C17_Witness ==
    /\ driver = "OSID2" /\ pc = "iddone" /\ osid.kind = "ret"
    /\ osid.axis = 0 /\ osid.k = 2 /\ osid.over = 1 /\ Len(osid.A) = 3
    /\ Rank(osid.A) = 2 /\ Reproduces(osid)

====
